---------------------------- MODULE Spec2Model ----------------------------
(***************************************************************************)
(* Model of the batch-addition engine of src/main.py:                      *)
(*   batch_add_members            the chunk scheduler (lines 357-406)      *)
(*   add_members_to_group         the per-candidate loop (lines 104-238)   *)
(* The platform client (get_entity, InviteToChannelRequest,                *)
(* AddChatUserRequest) is the environment: each request returns or raises  *)
(* one of the outcomes the client can produce.                             *)
(*                                                                         *)
(* Indices are 0-based as in the source: i is the chunk offset of          *)
(* batch_add_members' loop, idx is the index of enumerate(phone_numbers).  *)
(* An entry of a candidate list is [phone, pos]: phone is the value the    *)
(* code stores, pos is the entry's index in PHONE_NUMBERS (history only:   *)
(* no guard and no assignment of the model reads it).                      *)
(***************************************************************************)
EXTENDS Integers, Sequences, FiniteSets, TLC

VARIABLES
    PHONE_NUMBERS,    \* the master candidate list (line 306)
    CHUNK_SIZE,       \* line 313
    CHUNK_DELAY,      \* line 314
    REQUEST_DELAY,    \* line 315
    group,            \* kind of the selected group entity (line 324)
    script,           \* the platform's behaviour: "any" or "scenario"
    floodLeft,        \* FloodWaitError answers the platform may still give
    pc,               \* position of the run
    i,                \* chunk offset, batch_add_members line 361
    phone_numbers,    \* the chunk being processed (chunk, line 362)
    idx,              \* enumerate index of add_members_to_group, line 122
    successful_adds,  \* line 119
    failed_adds,      \* line 120
    all_successful,   \* line 358
    all_failed,       \* line 359
    chunks,           \* history: the chunks as sliced, in processing order
    events            \* history: platform requests, suspensions, returns

vars == <<PHONE_NUMBERS, CHUNK_SIZE, CHUNK_DELAY, REQUEST_DELAY, group, script,
          floodLeft, pc, i, phone_numbers, idx, successful_adds, failed_adds,
          all_successful, all_failed, chunks, events>>

-----------------------------------------------------------------------------
(* Bounds of the model *)

MaxN == 2
MaxChunk == 2
MaxFlood == 2

(* Defaults of the configuration, lines 314-315 *)
DefaultChunkDelay == 60
DefaultRequestDelay == 3

(* e.seconds of a FloodWaitError *)
WaitSeconds == {10}

-----------------------------------------------------------------------------
(* Helpers *)

Min(S) == CHOOSE x \in S : \A y \in S : x <= y

RECURSIVE SumSeq(_)
SumSeq(s) == IF s = <<>> THEN 0 ELSE Head(s) + SumSeq(Tail(s))

RECURSIVE Concat(_)
Concat(ss) == IF ss = <<>> THEN <<>> ELSE Head(ss) \o Concat(Tail(ss))

Entry(list, k) == [phone |-> list[k + 1], pos |-> k]

-----------------------------------------------------------------------------
(* The platform client's outcomes *)

FloodWait == "FloodWaitError"
AlreadyParticipant == "UserAlreadyParticipantError"
PrivacyRestricted == "UserPrivacyRestrictedError"
PeerFlood == "PeerFloodError"
AdminRequired == "ChatAdminRequiredError"
RPCError == "RPCError"
NotFound == "ValueError"

GroupKinds == {"Channel", "Chat", "Other"}

\* get_entity returns a User, returns another entity, or raises
ResolveResults == {"User", "NotUser", NotFound, FloodWait}

\* an invite/add request returns, or raises one of these
AddErrors == {FloodWait, AlreadyParticipant, PrivacyRestricted, PeerFlood,
              AdminRequired, RPCError}


-----------------------------------------------------------------------------
(* Pure parts of the code *)

\* mutant of InsertAt: the retried candidate is queued at the end of the chunk
InsertAt_AtEnd(s, k, x) == Append(s, x)

\* mutant of InsertAt: the rate-limited candidate is not put back
InsertAt_Drop(s, k, x) == s

\* phone_numbers.insert(i, phone_number), line 206
InsertAt(s, k, x) == SubSeq(s, 1, k) \o <<x>> \o SubSeq(s, k + 1, Len(s))

\* mutant of ChunkOf: the slice ends one entry early
ChunkOf_Short(list, off, size) ==
    SubSeq(list, off + 1,
           IF off + size - 1 < Len(list) THEN off + size - 1 ELSE Len(list))

\* PHONE_NUMBERS[i : i + CHUNK_SIZE], line 362
ChunkOf(list, off, size) ==
    SubSeq(list, off + 1, IF off + size < Len(list) THEN off + size ELSE Len(list))

\* mutant of NextOffset: the loop advances by the length of the list it worked
NextOffset_ByWorked(off, size, worked) == off + Len(worked)

\* the step of range(0, len(PHONE_NUMBERS), CHUNK_SIZE), line 361: the offset
\* advances by CHUNK_SIZE whatever the chunk's list has become
NextOffset(off, size, worked) == off + size

\* mutant of MoreChunks: <= for <
MoreChunks_Inclusive(off, size, n) == off + size <= n

\* if i + CHUNK_SIZE < len(PHONE_NUMBERS), line 381
MoreChunks(off, size, n) == off + size < n

\* mutant of Extend: the chunk's results replace the run's results
Extend_Overwrite(all, part) == part

\* all_successful.extend(successful), all_failed.extend(failed), lines 373-374
Extend(all, part) == all \o part

\* mutant of ExceptClauses: the catch-all clause of line 234 is missing
ExceptClauses_NoCatchAll ==
    <<FloodWait, AlreadyParticipant, PrivacyRestricted, PeerFlood, AdminRequired>>

\* the except clauses of the outer try, in source order (lines 201-234)
ExceptClauses ==
    <<FloodWait, AlreadyParticipant, PrivacyRestricted, PeerFlood, AdminRequired,
      "Exception">>

\* the except clause of the inner try around get_entity (line 138)
InnerExceptClauses == <<"Exception">>

\* isinstance(exc, cls): every platform error is an Exception, and none of the
\* five named classes is a subclass of another
IsInstance(exc, cls) == cls = exc \/ cls = "Exception"

\* the first except clause that catches exc, "none" when it propagates
Catch(clauses, exc) ==
    LET hits == {k \in 1..Len(clauses) : IsInstance(exc, clauses[k])}
    IN  IF hits = {} THEN "none" ELSE clauses[Min(hits)]

\* What the code does with the result h of the invite/add request: "ok" is the
\* path of lines 195-199, the others are the except clauses of lines 201-236.

\* mutant of ListOf: a rate-limited attempt is recorded as a failure
ListOf_RateLimitedFails(h) ==
    CASE h \in {"ok", AlreadyParticipant} -> "success"
      [] OTHER -> "failed"

\* the list the candidate is appended to (lines 195, 210, 214, 222, 229, 236)
ListOf(h) ==
    CASE h \in {"ok", AlreadyParticipant} -> "success"
      [] h = FloodWait -> "none"
      [] OTHER -> "failed"

\* the error recorded with a failure (lines 215, 223, 230, 236)
ErrorOf(h, exc) ==
    CASE h = PrivacyRestricted -> "Privacy restrictions"
      [] h = PeerFlood -> "Peer flood - too many requests"
      [] h = AdminRequired -> "Admin rights required"
      [] h = "Exception" -> exc
      [] OTHER -> ""

\* mutant of SleepOf: the delay is slept after an already-member answer too
SleepOf_AlsoAlready(h) ==
    CASE h \in {"ok", AlreadyParticipant} -> "delay"
      [] h = FloodWait -> "wait"
      [] OTHER -> "none"

\* mutant of SleepOf: the retry sleeps delay, not e.seconds
SleepOf_DelayOnRetry(h) ==
    CASE h \in {"ok", FloodWait} -> "delay"
      [] OTHER -> "none"

\* the suspension taken: asyncio.sleep(delay) (line 199), asyncio.sleep(wait_time)
\* (line 204), or none
SleepOf(h) ==
    CASE h = "ok" -> "delay"
      [] h = FloodWait -> "wait"
      [] OTHER -> "none"

\* mutant of Retries: an already-member candidate is re-inserted too
Retries_AlsoAlready(h) == h \in {FloodWait, AlreadyParticipant}

\* phone_numbers.insert(i, phone_number) is executed (line 206)
Retries(h) == h = FloodWait

\* mutant of Breaks: the break of line 232 is missing
Breaks_OnlyPeerFlood(h) == h = PeerFlood

\* mutant of Breaks: a privacy restriction ends the chunk too
Breaks_AlsoPrivacy(h) == h \in {PeerFlood, AdminRequired, PrivacyRestricted}

\* break (lines 225, 232)
Breaks(h) == h \in {PeerFlood, AdminRequired}

-----------------------------------------------------------------------------
(* History records *)

Ev(ev, pos, res, secs) == [ev |-> ev, pos |-> pos, res |-> res, secs |-> secs]

-----------------------------------------------------------------------------
(* Initial states *)

\* candidate lists of length n: the list of n distinct phone numbers, and the
\* list whose last entry repeats the first (the files read at line 306 may
\* hold a number twice)
PhoneLists(n) ==
    {[k \in 1..n |-> k], [k \in 1..n |-> IF k = n THEN 1 ELSE k]}

InitRun ==
    /\ pc = "batch"
    /\ i = 0
    /\ phone_numbers = <<>>
    /\ idx = 0
    /\ successful_adds = <<>>
    /\ failed_adds = <<>>
    /\ all_successful = <<>>
    /\ all_failed = <<>>
    /\ chunks = <<>>
    /\ events = <<>>

Init ==
    /\ \E n \in 1..MaxN : PHONE_NUMBERS \in PhoneLists(n)
    /\ CHUNK_SIZE \in 1..MaxChunk
    /\ CHUNK_DELAY = DefaultChunkDelay
    /\ REQUEST_DELAY = DefaultRequestDelay
    /\ group \in GroupKinds
    /\ script = "any"
    /\ floodLeft = MaxFlood
    /\ InitRun

-----------------------------------------------------------------------------
(* The platform *)

ResolveOutcomes ==
    IF script = "scenario" THEN {"User"} ELSE ResolveResults

AddOutcomes(phone) ==
    IF script = "scenario"
    THEN IF phone = 7 /\ floodLeft > 0 THEN {FloodWait} ELSE {"ok"}
    ELSE {"ok"} \cup {e \in AddErrors : e = FloodWait => floodLeft > 0}

-----------------------------------------------------------------------------
(* batch_add_members *)

Tagged == [k \in 1..Len(PHONE_NUMBERS) |-> Entry(PHONE_NUMBERS, k - 1)]

config == <<PHONE_NUMBERS, CHUNK_SIZE, CHUNK_DELAY, REQUEST_DELAY, group, script>>

\* lines 361-371: the loop takes the next chunk and calls add_members_to_group
StartChunk ==
    /\ pc = "batch"
    /\ i < Len(PHONE_NUMBERS)
    /\ phone_numbers' = ChunkOf(Tagged, i, CHUNK_SIZE)
    /\ chunks' = Append(chunks, phone_numbers')
    /\ idx' = 0
    /\ successful_adds' = <<>>
    /\ failed_adds' = <<>>
    /\ pc' = IF Len(phone_numbers') > 0 THEN "for" ELSE "return"
    /\ UNCHANGED <<config, floodLeft, i, all_successful, all_failed, events>>

\* lines 238, 373-383: the call returns, the results are appended, and the
\* scheduler sleeps when more chunks remain
ReturnChunk ==
    /\ pc = "return"
    /\ all_successful' = Extend(all_successful, successful_adds)
    /\ all_failed' = Extend(all_failed, failed_adds)
    /\ successful_adds' = <<>>
    /\ failed_adds' = <<>>
    /\ events' = events \o <<Ev("return", i, "", 0)>> \o
                 (IF MoreChunks(i, CHUNK_SIZE, Len(PHONE_NUMBERS))
                  THEN <<Ev("sleep", i, "chunk_delay", CHUNK_DELAY)>>
                  ELSE <<>>)
    /\ i' = NextOffset(i, CHUNK_SIZE, phone_numbers)
    /\ pc' = "batch"
    /\ UNCHANGED <<config, floodLeft, phone_numbers, idx, chunks>>

\* lines 385-400, 405-406: the loop is over, the totals are reported
Finish ==
    /\ pc = "batch"
    /\ i >= Len(PHONE_NUMBERS)
    /\ pc' = "done"
    /\ UNCHANGED <<config, floodLeft, i, phone_numbers, idx, successful_adds,
                   failed_adds, all_successful, all_failed, chunks, events>>

-----------------------------------------------------------------------------
(* add_members_to_group *)

\* the end of one iteration of the loop of line 122
Iterate(to, error, retry, brk, evs) ==
    LET phone_number == phone_numbers[idx + 1]
    IN  /\ successful_adds' =
              IF to = "success" THEN Append(successful_adds, phone_number)
              ELSE successful_adds
        /\ failed_adds' =
              IF to = "failed"
              THEN Append(failed_adds, [phone |-> phone_number.phone,
                                        pos |-> phone_number.pos,
                                        error |-> error])
              ELSE failed_adds
        /\ phone_numbers' =
              IF retry THEN InsertAt(phone_numbers, idx, phone_number)
              ELSE phone_numbers
        /\ idx' = idx + 1
        /\ pc' = IF brk \/ idx' >= Len(phone_numbers') THEN "return" ELSE "for"
        /\ events' = events \o evs

\* an exception reaches the outer try (lines 201-236); one that no clause
\* catches leaves add_members_to_group and is caught at line 402
Raise(exc, secs, evs) ==
    LET h == Catch(ExceptClauses, exc)
        pos == phone_numbers[idx + 1].pos
    IN  IF h = "none"
        THEN /\ pc' = "error"
             /\ events' = events \o evs
             /\ UNCHANGED <<phone_numbers, idx, successful_adds, failed_adds>>
        ELSE Iterate(ListOf(h), ErrorOf(h, exc), Retries(h), Breaks(h),
                     evs \o (IF SleepOf(h) = "wait"
                             THEN <<Ev("sleep", pos, "flood_wait", secs)>>
                             ELSE IF SleepOf(h) = "delay"
                             THEN <<Ev("sleep", pos, "delay", REQUEST_DELAY)>>
                             ELSE <<>>))

\* lines 124-143: get_entity and the check of its result
GetEntity ==
    /\ pc = "for"
    /\ \E res \in ResolveOutcomes :
          LET pos == phone_numbers[idx + 1].pos
              ev == <<Ev("get_entity", pos, res, 0)>>
          IN  CASE res = "User" ->
                     /\ pc' = "add"
                     /\ events' = events \o ev
                     /\ UNCHANGED <<phone_numbers, idx, successful_adds,
                                    failed_adds>>
                [] res = "NotUser" ->
                     Iterate("failed", "Entity is not a user", FALSE, FALSE, ev)
                [] OTHER ->
                     IF Catch(InnerExceptClauses, res) # "none"
                     THEN Iterate("failed", "User not found: " \o res, FALSE,
                                  FALSE, ev)
                     ELSE \E w \in WaitSeconds : Raise(res, w, ev)
    /\ UNCHANGED <<config, floodLeft, i, all_successful, all_failed, chunks>>

\* await self.client(InviteToChannelRequest(...)) / AddChatUserRequest(...),
\* lines 174-187, followed by lines 195-199 or by an except clause
Request(phone_number) ==
    \E res \in AddOutcomes(phone_number.phone) :
       LET pos == phone_number.pos
       IN  IF res = "ok"
           THEN /\ Iterate(ListOf("ok"), ErrorOf("ok", ""), Retries("ok"),
                           Breaks("ok"),
                           <<Ev("add", pos, "ok", 0)>> \o
                           (IF SleepOf("ok") = "delay"
                            THEN <<Ev("sleep", pos, "delay", REQUEST_DELAY)>>
                            ELSE <<>>))
                /\ UNCHANGED floodLeft
           ELSE \E w \in IF res = FloodWait THEN WaitSeconds ELSE {0} :
                   /\ Raise(res, w, <<Ev("add", pos, res, w)>>)
                   /\ floodLeft' = IF res = FloodWait THEN floodLeft - 1
                                   ELSE floodLeft

\* lines 146-236: the invite/add request by group kind, and its outcome
AddMember ==
    /\ pc = "add"
    /\ LET phone_number == phone_numbers[idx + 1]
           pos == phone_number.pos
       IN  CASE group = "Channel" ->
                  \E pre \in IF script = "scenario" THEN {"valid"}
                             ELSE {"no_input_channel", "no_input_user", "valid"} :
                     CASE pre = "no_input_channel" ->
                            /\ Iterate("failed",
                                       "Invalid channel reference - cannot add members",
                                       FALSE, FALSE, <<>>)
                            /\ UNCHANGED floodLeft
                       [] pre = "no_input_user" ->
                            /\ Iterate("failed",
                                       "Invalid user reference - cannot add to channel",
                                       FALSE, FALSE, <<>>)
                            /\ UNCHANGED floodLeft
                       [] OTHER -> Request(phone_number)
             [] group = "Chat" -> Request(phone_number)
             [] OTHER ->
                  /\ Iterate("failed", "Unsupported group type", FALSE, FALSE, <<>>)
                  /\ UNCHANGED floodLeft
    /\ UNCHANGED <<config, i, all_successful, all_failed, chunks>>

Next == StartChunk \/ GetEntity \/ AddMember \/ ReturnChunk \/ Finish

Spec == Init /\ [][Next]_vars

\* The scenario of 12 candidates in chunks of 5 where the add request for the
\* candidate at index 6 (phone 7) is answered FloodWaitError(10) once and
\* every other request succeeds, for several delays R and D.
InitScenario ==
    /\ PHONE_NUMBERS = [k \in 1..12 |-> k]
    /\ CHUNK_SIZE = 5
    /\ CHUNK_DELAY \in {0, 30, 60}
    /\ REQUEST_DELAY \in {1, 3, 5}
    /\ group \in {"Channel", "Chat"}
    /\ script = "scenario"
    /\ floodLeft = 1
    /\ InitRun

SpecScenario == InitScenario /\ [][Next]_vars


-----------------------------------------------------------------------------
(* Vocabulary of the properties *)

EvIdx == 1..Len(events)

IsRequest(e) == e.ev \in {"get_entity", "add"}

IsFatal(e) == e.ev = "add" /\ e.res \in {PeerFlood, AdminRequired}

IsRateLimited(e) == e.ev = "add" /\ e.res = FloodWait

IsSleep(e, kind) == e.ev = "sleep" /\ e.res = kind

\* the success list and the failure list of the run so far: what the scheduler
\* holds, followed by what the chunk in progress has recorded
SuccessList == all_successful \o successful_adds
FailureList == all_failed \o failed_adds

CountPos(list, p) == Cardinality({k \in 1..Len(list) : list[k].pos = p})

CountPhone(list, ph) == Cardinality({k \in 1..Len(list) : list[k].phone = ph})

\* the chunks that have returned, and the inter-chunk sleeps taken
ReturnCount == Cardinality({j \in EvIdx : events[j].ev = "return"})
ChunkSleepCount == Cardinality({j \in EvIdx : IsSleep(events[j], "chunk_delay")})

\* the least m with m * c >= n
Ceil(n, c) == Min({m \in 0..n : m * c >= n})

TotalSleep == SumSeq([j \in EvIdx |-> IF events[j].ev = "sleep"
                                      THEN events[j].secs ELSE 0])

Distinct(list) == \A a, b \in 1..Len(list) : list[a] = list[b] => a = b

\* j1 < j2 are requests with no request between them
ConsecutiveRequests(j1, j2) ==
    /\ j1 < j2
    /\ IsRequest(events[j1])
    /\ IsRequest(events[j2])
    /\ \A m \in (j1 + 1)..(j2 - 1) : ~IsRequest(events[m])

-----------------------------------------------------------------------------
(* C1: fatal abort is run-wide.  Once the add/invite request for the        *)
(* candidate at index k has returned PeerFloodError or                      *)
(* ChatAdminRequiredError, no candidate at an index > k is in the success   *)
(* list or in the failure list, candidates of later chunks included.        *)
(* The code breaks out of the chunk only (lines 225, 232): the scheduler    *)
(* goes on with the next chunk.                                             *)
C1_FatalAbortRunWide ==
    \A j \in EvIdx :
       IsFatal(events[j]) =>
          /\ \A k \in 1..Len(SuccessList) : SuccessList[k].pos <= events[j].pos
          /\ \A k \in 1..Len(FailureList) : FailureList[k].pos <= events[j].pos

-----------------------------------------------------------------------------
(* C2: in-place retry.  When the add/invite request for a candidate returns *)
(* FloodWaitError(w), the engine sleeps w and the next request is the       *)
(* get_entity of that same candidate, wherever it stands in the chunk and   *)
(* however many times in a row; between two consecutive resolutions with no *)
(* fatal signal the engine stays on the candidate (after a rate limit) or   *)
(* moves to the next one (otherwise), so none is skipped; and at run end    *)
(* the retried candidate is in the report exactly once.                     *)
C2_InPlaceRetry ==
    /\ \A j \in EvIdx :
          IsRateLimited(events[j]) =>
             /\ j + 1 <= Len(events)
             /\ IsSleep(events[j + 1], "flood_wait")
             /\ events[j + 1].secs = events[j].secs
             /\ events[j].secs \in WaitSeconds
             /\ IF j + 2 <= Len(events)
                THEN /\ events[j + 2].ev = "get_entity"
                     /\ events[j + 2].pos = events[j].pos
                ELSE /\ pc = "for"
                     /\ phone_numbers[idx + 1].pos = events[j].pos
             /\ pc = "done" =>
                   CountPos(all_successful, events[j].pos)
                     + CountPos(all_failed, events[j].pos) = 1
    /\ \A j1, j2 \in EvIdx :
          /\ j1 < j2
          /\ events[j1].ev = "get_entity"
          /\ events[j2].ev = "get_entity"
          /\ \A m \in (j1 + 1)..(j2 - 1) :
                events[m].ev # "get_entity" /\ ~IsFatal(events[m])
          => IF \E m \in (j1 + 1)..(j2 - 1) : IsRateLimited(events[m])
             THEN events[j2].pos = events[j1].pos
             ELSE events[j2].pos = events[j1].pos + 1

\* a candidate at a position that is not the last of its chunk was rate
\* limited twice in a row and the run has ended
C2_Witness ==
    /\ pc = "done"
    /\ \E j \in EvIdx :
          /\ IsRateLimited(events[j])
          /\ j + 4 <= Len(events)
          /\ IsRateLimited(events[j + 3])
          /\ events[j].pos = 0
          /\ CHUNK_SIZE = 2
          /\ Len(PHONE_NUMBERS) = 2

-----------------------------------------------------------------------------
(* C3: for a list of pairwise distinct candidates, at run end every         *)
(* candidate that was reached is in exactly one of the two lists, exactly   *)
(* once, and a candidate is in neither only if a fatal signal stopped its   *)
(* chunk before it was reached.                                             *)
C3_ExactlyOneList ==
    (pc = "done" /\ Distinct(PHONE_NUMBERS)) =>
       \A k \in 0..(Len(PHONE_NUMBERS) - 1) :
          LET ph == PHONE_NUMBERS[k + 1]
              total == CountPhone(all_successful, ph) + CountPhone(all_failed, ph)
              reached == \E j \in EvIdx :
                            events[j].ev = "get_entity" /\ events[j].pos = k
          IN  /\ reached => total = 1
              /\ ~reached =>
                    /\ total = 0
                    /\ \E j \in EvIdx :
                          /\ IsFatal(events[j])
                          /\ events[j].pos < k
                          /\ events[j].pos \div CHUNK_SIZE = k \div CHUNK_SIZE

\* a run over two distinct candidates ended with one in each list, one of
\* them after a retry
C3_Witness ==
    /\ pc = "done"
    /\ Distinct(PHONE_NUMBERS)
    /\ Len(PHONE_NUMBERS) = 2
    /\ Len(all_successful) = 1
    /\ Len(all_failed) = 1
    /\ \E j \in EvIdx : IsRateLimited(events[j])

-----------------------------------------------------------------------------
(* C4: for every chunk size C >= 1 and every candidate count N the          *)
(* scheduler processes exactly ceil(N / C) chunks, every chunk but the last *)
(* has exactly C candidates, and the chunks in processing order concatenate *)
(* to the original candidate list.                                          *)
C4_Chunking ==
    pc = "done" =>
       /\ Len(chunks) = Ceil(Len(PHONE_NUMBERS), CHUNK_SIZE)
       /\ ReturnCount = Len(chunks)
       /\ \A c \in 1..(Len(chunks) - 1) : Len(chunks[c]) = CHUNK_SIZE
       /\ \A c \in 1..Len(chunks) :
             Len(chunks[c]) >= 1 /\ Len(chunks[c]) <= CHUNK_SIZE
       /\ LET all == Concat(chunks)
          IN  [k \in 1..Len(all) |-> all[k].phone] = PHONE_NUMBERS

\* a run of more than one chunk has ended
C4_Witness ==
    /\ pc = "done"
    /\ Len(chunks) >= 2
    /\ CHUNK_SIZE < Len(PHONE_NUMBERS)

-----------------------------------------------------------------------------
(* C5: the scenario.  12 candidates, chunk size 5, every add succeeds       *)
(* except that the candidate at index 6 is answered FloodWaitError(10) once *)
(* and succeeds on its re-attempt.                                          *)

\* C5 as stated: success count 12, failure count 0, and the suspensions of
\* the run sum to 11 * R + 10 + 2 * D
C5_ScenarioAsStated ==
    pc = "done" =>
       /\ Len(all_successful) = 12
       /\ Len(all_failed) = 0
       /\ TotalSleep = 11 * REQUEST_DELAY + 10 + 2 * CHUNK_DELAY

\* C5 as amended: every one of the 12 successful adds is followed by a sleep
\* of R (line 199), so the suspensions sum to 12 * R + 10 + 2 * D; the chunks
\* have lengths 5, 5, 2
C5_ScenarioTotal ==
    pc = "done" =>
       /\ Len(all_successful) = 12
       /\ Len(all_failed) = 0
       /\ [c \in 1..Len(chunks) |-> Len(chunks[c])] = <<5, 5, 2>>
       /\ TotalSleep = 12 * REQUEST_DELAY + 10 + 2 * CHUNK_DELAY

\* the scenario has run to its end, the rate limit of index 6 included
C5_Witness ==
    /\ pc = "done"
    /\ script = "scenario"
    /\ Len(PHONE_NUMBERS) = 12
    /\ \E j \in EvIdx :
          /\ IsRateLimited(events[j])
          /\ events[j].pos = 6
          /\ events[j].secs = 10

-----------------------------------------------------------------------------
(* C6: pacing after every non-retry outcome.  Two platform requests for     *)
(* different candidates always have a sleep of the per-request delay R      *)
(* between them, whatever the outcome of the first candidate was.           *)
(* The code sleeps R only after a successful add (line 199).                *)
C6_PacingEveryOutcome ==
    \A j1, j2 \in EvIdx :
       (ConsecutiveRequests(j1, j2) /\ events[j1].pos # events[j2].pos) =>
          \E m \in (j1 + 1)..(j2 - 1) :
             IsSleep(events[m], "delay") /\ events[m].secs = REQUEST_DELAY

-----------------------------------------------------------------------------
(* C7: inter-chunk pacing.  When a chunk has returned the scheduler sleeps  *)
(* D if and only if another chunk remains; every request of a chunk comes   *)
(* after the return of, and the sleep after, every earlier chunk; no sleep  *)
(* of D follows the last chunk: a run of N > 0 candidates takes             *)
(* ceil(N / C) - 1 of them.                                                 *)
C7_InterChunkPacing ==
    /\ \A j \in EvIdx :
          IsSleep(events[j], "chunk_delay") =>
             /\ j > 1
             /\ events[j - 1].ev = "return"
             /\ events[j].secs = CHUNK_DELAY
    /\ \A j \in EvIdx :
          events[j].ev = "return" =>
             LET remain == \E k \in 0..(Len(PHONE_NUMBERS) - 1) :
                              k >= events[j].pos + CHUNK_SIZE
                 slept == /\ j + 1 <= Len(events)
                          /\ IsSleep(events[j + 1], "chunk_delay")
             IN  remain <=> slept
    /\ \A j \in EvIdx :
          IsRequest(events[j]) =>
             LET before == {m \in 1..(j - 1) : events[m].ev = "return"}
                 slept == {m \in 1..(j - 1) : IsSleep(events[m], "chunk_delay")}
             IN  /\ Cardinality(before) = events[j].pos \div CHUNK_SIZE
                 /\ Cardinality(slept) = events[j].pos \div CHUNK_SIZE
    /\ pc = "done" =>
          ChunkSleepCount
             = Ceil(Len(PHONE_NUMBERS), CHUNK_SIZE) - 1

\* a run of two chunks has ended: one sleep of D was taken, after the first
C7_Witness ==
    /\ pc = "done"
    /\ Len(chunks) = 2
    /\ ChunkSleepCount = 1
    /\ events[Len(events)].ev = "return"

-----------------------------------------------------------------------------
(* C8: bounded retry.  The engine gives up on a candidate after a bounded   *)
(* number of rate-limit signals.  The platform of the model answers         *)
(* FloodWaitError at most MaxFlood times in a run; an engine with a bound   *)
(* on its retries stops re-attempting a candidate before that, for MaxFlood *)
(* large enough.  The code re-inserts the candidate on every FloodWaitError *)
(* (line 206), so for every MaxFlood one candidate is re-attempted MaxFlood *)
(* times: only the platform bounds the retries.                             *)
C8_BoundedRetry ==
    \A k \in 0..(Len(PHONE_NUMBERS) - 1) :
       Cardinality({j \in EvIdx : IsRateLimited(events[j]) /\ events[j].pos = k})
          < MaxFlood

-----------------------------------------------------------------------------
(* C9: the engine never raises.  Whatever the platform answers at the       *)
(* resolution step or at the add/invite step, no exception leaves           *)
(* add_members_to_group: every chunk that was started returns its pair of   *)
(* lists, and the run ends completed, never in the handler of line 402.     *)
C9_NeverRaises ==
    /\ pc # "error"
    /\ ReturnCount
          = Len(chunks) - (IF pc \in {"for", "add", "return"} THEN 1 ELSE 0)
    /\ pc = "done" =>
          /\ i >= Len(PHONE_NUMBERS)
          /\ Len(all_successful) + Len(all_failed) <= Len(PHONE_NUMBERS)

\* a run has ended after a generic error of the add request and a failed
\* resolution
C9_Witness ==
    /\ pc = "done"
    /\ \E j \in EvIdx : events[j].ev = "add" /\ events[j].res = RPCError
    /\ \E j \in EvIdx : events[j].ev = "get_entity" /\ events[j].res = NotFound

-----------------------------------------------------------------------------
(* C10: AlreadyMember idempotence.  A candidate whose add/invite request    *)
(* returned UserAlreadyParticipantError is in the success list exactly      *)
(* once, never in the failure list, and no later invite/add request is      *)
(* issued for it.                                                           *)
C10_AlreadyMemberOnce ==
    \A j \in EvIdx :
       (events[j].ev = "add" /\ events[j].res = AlreadyParticipant) =>
          /\ CountPos(SuccessList, events[j].pos) = 1
          /\ CountPos(FailureList, events[j].pos) = 0
          /\ \A m \in (j + 1)..Len(events) :
                ~(events[m].ev = "add" /\ events[m].pos = events[j].pos)

\* a candidate was rate limited, then found to be a member already, and the
\* run went on to the end
C10_Witness ==
    /\ pc = "done"
    /\ \E j \in EvIdx :
          /\ events[j].ev = "add"
          /\ events[j].res = AlreadyParticipant
          /\ events[j].pos = 0
          /\ \E m \in 1..(j - 1) : IsRateLimited(events[m]) /\ events[m].pos = 0
          /\ \E m \in (j + 1)..Len(events) : IsRequest(events[m])


-----------------------------------------------------------------------------
(* C11: non-fatal failures do not stop the run.  A candidate that fails     *)
(* because it was not found, is not a user, the group kind is unsupported,  *)
(* it is privacy restricted or a generic error was raised, is in the        *)
(* failure list with that reason, and the candidate after it (if any) is    *)
(* processed next, in its chunk or in the next one; without a fatal signal  *)
(* every candidate has been reached when the run ends.                      *)

FatalReasons == {"Peer flood - too many requests", "Admin rights required"}

Reached(k) == \E j \in EvIdx : events[j].ev = "get_entity" /\ events[j].pos = k

\* the reason recorded for the request result e, "" when e is no failure
ReasonOf(e) ==
    CASE e.ev = "get_entity" /\ e.res = "NotUser" -> "Entity is not a user"
      [] e.ev = "get_entity" /\ e.res = NotFound -> "User not found: ValueError"
      [] e.ev = "add" /\ e.res = PrivacyRestricted -> "Privacy restrictions"
      [] e.ev = "add" /\ e.res = RPCError -> "RPCError"
      [] OTHER -> ""

HasFailure(p, reason) ==
    \E k \in 1..Len(FailureList) :
       FailureList[k].pos = p /\ FailureList[k].error = reason

C11_NonFatalContinues ==
    /\ \A j \in EvIdx :
          ReasonOf(events[j]) # "" => HasFailure(events[j].pos, ReasonOf(events[j]))
    /\ group = "Other" =>
          \A j \in EvIdx :
             (events[j].ev = "get_entity" /\ events[j].res = "User"
                /\ (j < Len(events) \/ pc # "add"))
             => HasFailure(events[j].pos, "Unsupported group type")
    /\ \A k \in 1..Len(FailureList) :
          LET f == FailureList[k]
              next == f.pos + 1
          IN  (f.error \notin FatalReasons /\ next < Len(PHONE_NUMBERS)) =>
                 \/ Reached(next)
                 \/ pc = "for" /\ phone_numbers[idx + 1].pos = next
                 \/ pc = "return" /\ next = i + CHUNK_SIZE
                 \/ pc = "batch" /\ next = i
    /\ (pc = "done" /\ \A j \in EvIdx : ~IsFatal(events[j])) =>
          \A k \in 0..(Len(PHONE_NUMBERS) - 1) : Reached(k)

\* the first candidate of a chunk of two was privacy restricted, the second
\* failed with a generic error, and the run ended
C11_Witness ==
    /\ pc = "done"
    /\ CHUNK_SIZE = 2
    /\ Len(all_failed) = 2
    /\ all_failed[1].error = "Privacy restrictions"
    /\ all_failed[2].error = "RPCError"


-----------------------------------------------------------------------------
(* C12: the result lists are append-only and ordered.  In every step the    *)
(* success list and the failure list only grow at their end, and at every   *)
(* moment, the run's end included, each list holds its candidates in the    *)
(* order of the original candidate list, across chunk boundaries and after  *)
(* retries.                                                                 *)

IsPrefix(s, t) == Len(s) <= Len(t) /\ SubSeq(t, 1, Len(s)) = s

OrderedByPos(list) ==
    \A a, b \in 1..Len(list) : a < b => list[a].pos < list[b].pos

C12_AppendOnlyOrdered ==
    /\ [](OrderedByPos(SuccessList) /\ OrderedByPos(FailureList))
    /\ [][/\ IsPrefix(SuccessList, SuccessList')
          /\ IsPrefix(FailureList, FailureList')]_vars

\* two chunks of one candidate each have returned, the first candidate after
\* a retry, and both candidates are in the success list
C12_Witness ==
    /\ pc = "done"
    /\ CHUNK_SIZE = 1
    /\ Len(all_successful) = 2
    /\ \E j \in EvIdx : IsRateLimited(events[j]) /\ events[j].pos = 0


-----------------------------------------------------------------------------
(* C13: RateLimited is always recoverable.  Whenever the platform raises    *)
(* FloodWaitError while a candidate is processed, at get_entity or at the   *)
(* add/invite request, the engine sleeps the advised time and re-attempts   *)
(* the same candidate, and no candidate is recorded as failed because of a  *)
(* FloodWaitError.                                                          *)
(* The except Exception of line 138 catches the FloodWaitError of           *)
(* get_entity before the clause of line 201 can: the candidate is recorded  *)
(* as "User not found" and is not re-attempted.                             *)
C13_RateLimitedRecoverable ==
    \A j \in EvIdx :
       (IsRequest(events[j]) /\ events[j].res = FloodWait) =>
          /\ j + 1 <= Len(events)
          /\ IsSleep(events[j + 1], "flood_wait")
          /\ events[j + 1].secs \in WaitSeconds
          /\ IF j + 2 <= Len(events)
             THEN events[j + 2].ev = "get_entity"
                     /\ events[j + 2].pos = events[j].pos
             ELSE pc = "for" /\ phone_numbers[idx + 1].pos = events[j].pos
          /\ ~HasFailure(events[j].pos, "User not found: FloodWaitError")


-----------------------------------------------------------------------------
(* C14: after every add/invite request that returned without error the      *)
(* engine sleeps exactly the per-request delay R before anything else       *)
(* happens, also when the candidate is the last of its chunk (the sleep of  *)
(* R then precedes the return of the chunk and the sleep of D); the sleeps  *)
(* of R of a run are as many as the requests that returned without error.   *)

IsAddOk(e) == e.ev = "add" /\ e.res = "ok"

C14_DelayAfterSuccess ==
    /\ \A j \in EvIdx :
          IsAddOk(events[j]) =>
             /\ j + 1 <= Len(events)
             /\ IsSleep(events[j + 1], "delay")
             /\ events[j + 1].secs = REQUEST_DELAY
             /\ events[j + 1].pos = events[j].pos
    /\ \A j \in EvIdx :
          IsSleep(events[j], "delay") => j > 1 /\ IsAddOk(events[j - 1])
    /\ \A j \in EvIdx :
          IsSleep(events[j], "chunk_delay") =>
             \A m \in 1..(j - 1) :
                IsAddOk(events[m]) => m + 1 < j - 1
    /\ Cardinality({j \in EvIdx : IsSleep(events[j], "delay")})
          = Cardinality({j \in EvIdx : IsAddOk(events[j])})

\* the only candidate of the first of two chunks was added: the sleep of R,
\* the return of the chunk and the sleep of D followed in that order
C14_Witness ==
    /\ Len(events) >= 5
    /\ events[1].ev = "get_entity"
    /\ IsAddOk(events[2])
    /\ IsSleep(events[3], "delay")
    /\ events[4].ev = "return"
    /\ IsSleep(events[5], "chunk_delay")


-----------------------------------------------------------------------------
(* C15: within one call of add_members_to_group, once the add/invite        *)
(* request of a candidate has raised PeerFloodError or                      *)
(* ChatAdminRequiredError, that candidate is in the failure list exactly    *)
(* once with the reason of its error, the call returns next, and no later   *)
(* candidate of that chunk is resolved, requested or recorded.              *)

SameChunk(p, q) == p \div CHUNK_SIZE = q \div CHUNK_SIZE

C15_FatalEndsChunk ==
    \A j \in EvIdx :
       IsFatal(events[j]) =>
          LET p == events[j].pos
          IN  /\ CountPos(FailureList, p) = 1
              /\ CountPos(SuccessList, p) = 0
              /\ HasFailure(p, IF events[j].res = PeerFlood
                               THEN "Peer flood - too many requests"
                               ELSE "Admin rights required")
              /\ IF j + 1 <= Len(events)
                 THEN events[j + 1].ev = "return" /\ SameChunk(events[j + 1].pos, p)
                 ELSE pc = "return"
              /\ \A m \in EvIdx :
                    (IsRequest(events[m]) /\ SameChunk(events[m].pos, p)) =>
                       m <= j /\ events[m].pos <= p
              /\ \A k \in 1..Len(SuccessList) :
                    SameChunk(SuccessList[k].pos, p) => SuccessList[k].pos < p
              /\ \A k \in 1..Len(FailureList) :
                    SameChunk(FailureList[k].pos, p) => FailureList[k].pos <= p

\* the first candidate of a chunk of two got ChatAdminRequiredError and the
\* run has ended: the second candidate is in no list
C15_Witness ==
    /\ pc = "done"
    /\ CHUNK_SIZE = 2
    /\ Len(PHONE_NUMBERS) = 2
    /\ \E j \in EvIdx :
          IsFatal(events[j]) /\ events[j].res = AdminRequired /\ events[j].pos = 0
    /\ Len(all_failed) = 1
    /\ Len(all_successful) = 0


-----------------------------------------------------------------------------
(* C16: a retry touches only the working list of the chunk in progress.     *)
(* That list grows by one entry per retry and holds the chunk's candidates  *)
(* in order, the retried ones repeated; the master list never changes; the  *)
(* scheduler's offset advances by CHUNK_SIZE per chunk; and every chunk is  *)
(* the slice of the master list at its offset, so no candidate of a later   *)
(* chunk is skipped, duplicated or moved to another chunk by a retry.       *)

\* PHONE_NUMBERS[(c - 1) * CHUNK_SIZE : c * CHUNK_SIZE], with the indices
OriginalChunk(c) ==
    LET first == (c - 1) * CHUNK_SIZE
        rest == Len(PHONE_NUMBERS) - first
        len == IF rest < CHUNK_SIZE THEN rest ELSE CHUNK_SIZE
    IN  [k \in 1..len |-> Tagged[first + k]]

\* the retries taken in the chunk of candidate p
RetriesInChunk(p) ==
    Cardinality({j \in EvIdx : IsRateLimited(events[j]) /\ SameChunk(events[j].pos, p)})

\* list without the repetitions of an entry that follow it immediately
RECURSIVE Squeeze(_)
Squeeze(list) ==
    IF Len(list) <= 1 THEN list
    ELSE IF list[1] = list[2] THEN Squeeze(Tail(list))
    ELSE <<list[1]>> \o Squeeze(Tail(list))

C16_RetryFrame ==
    /\ [][PHONE_NUMBERS' = PHONE_NUMBERS /\ IsPrefix(chunks, chunks')]_vars
    /\ [](/\ i = CHUNK_SIZE * ReturnCount
          /\ \A c \in 1..Len(chunks) :
                (c - 1) * CHUNK_SIZE < Len(PHONE_NUMBERS)
                   /\ chunks[c] = OriginalChunk(c)
          /\ pc \in {"for", "add", "return"} =>
                LET own == chunks[Len(chunks)]
                IN  /\ Len(phone_numbers) = Len(own) + RetriesInChunk(own[1].pos)
                    /\ Squeeze(phone_numbers) = own
          /\ pc = "done" => Concat(chunks) = Tagged)

\* the candidate of the first of two chunks was retried twice and the second
\* chunk was then sliced with its own candidate
C16_Witness ==
    /\ CHUNK_SIZE = 1
    /\ Len(chunks) = 2
    /\ chunks[2] = <<[phone |-> PHONE_NUMBERS[2], pos |-> 1]>>
    /\ Cardinality({j \in EvIdx : IsRateLimited(events[j]) /\ events[j].pos = 0}) = 2
    /\ pc = "for"
    /\ phone_numbers = chunks[2]


-----------------------------------------------------------------------------
(* A call of add_members_to_group by a caller of its own, with any group    *)
(* entity, None included (batch_add_members never passes None: line 325).   *)

\* mutant of GroupNotFound: nothing is reported for the candidates
GroupNotFound_Empty(list) == <<>>

\* [{"phone": phone, "error": "Group not found"} for phone in phone_numbers],
\* lines 115-117
GroupNotFound(list) ==
    [k \in 1..Len(list) |-> [phone |-> list[k].phone, pos |-> list[k].pos,
                             error |-> "Group not found"]]

\* lines 113-120: the check of group_entity and the two empty lists
Call ==
    /\ pc = "call"
    /\ IF group = "None"
       THEN /\ successful_adds' = <<>>
            /\ failed_adds' = GroupNotFound(phone_numbers)
            /\ pc' = "return"
       ELSE /\ successful_adds' = <<>>
            /\ failed_adds' = <<>>
            /\ pc' = IF Len(phone_numbers) > 0 THEN "for" ELSE "return"
    /\ UNCHANGED <<config, floodLeft, i, phone_numbers, idx, all_successful,
                   all_failed, chunks, events>>

InitCall ==
    /\ \E n \in 0..MaxN : PHONE_NUMBERS \in PhoneLists(n)
    /\ CHUNK_SIZE = MaxChunk
    /\ CHUNK_DELAY = DefaultChunkDelay
    /\ REQUEST_DELAY = DefaultRequestDelay
    /\ group \in GroupKinds \cup {"None"}
    /\ script = "any"
    /\ floodLeft = MaxFlood
    /\ pc = "call"
    /\ i = 0
    /\ phone_numbers = Tagged
    /\ idx = 0
    /\ successful_adds = <<>>
    /\ failed_adds = <<>>
    /\ all_successful = <<>>
    /\ all_failed = <<>>
    /\ chunks = <<>>
    /\ events = <<>>

\* the call runs to its return (pc = "return")
NextCall == Call \/ GetEntity \/ AddMember

SpecCall == InitCall /\ [][NextCall]_vars

-----------------------------------------------------------------------------
(* C17: called with group entity None, add_members_to_group issues no       *)
(* platform request and takes no suspension, and returns an empty success   *)
(* list and a failure list that holds every candidate of the input exactly  *)
(* once, in input order, each with the reason "Group not found".            *)
C17_GroupNone ==
    group = "None" =>
       /\ events = <<>>
       /\ pc \in {"call", "return"}
       /\ pc = "return" =>
             /\ successful_adds = <<>>
             /\ Len(failed_adds) = Len(PHONE_NUMBERS)
             /\ \A k \in 1..Len(failed_adds) :
                   /\ failed_adds[k].phone = PHONE_NUMBERS[k]
                   /\ failed_adds[k].pos = k - 1
                   /\ failed_adds[k].error = "Group not found"

\* the call with None and two candidates has returned
C17_Witness ==
    /\ group = "None"
    /\ pc = "return"
    /\ Len(PHONE_NUMBERS) = 2
    /\ Len(failed_adds) = 2


-----------------------------------------------------------------------------
(* The run under fair scheduling: every await of the single coroutine       *)
(* completes (a request is answered, a sleep is finite), so a step that is  *)
(* enabled is eventually taken.  The platform signals FloodWaitError at     *)
(* most MaxFlood times in a run (floodLeft), hence finitely often for every *)
(* candidate.                                                               *)
FairSpec == Init /\ [][Next]_vars /\ WF_vars(Next)

Ended == pc \in {"done", "error"}

NoFatal == \A j \in EvIdx : ~IsFatal(events[j])

\* Succeeded (success list), AlreadyMember (logged only) or Failed (failure
\* list)
Terminal(p) ==
    \/ CountPos(SuccessList, p) > 0
    \/ CountPos(FailureList, p) > 0
    \/ \E j \in EvIdx : /\ events[j].ev = "add"
                        /\ events[j].res = AlreadyParticipant
                        /\ events[j].pos = p

(* C18: progress under finite rate-limiting.  With finitely many            *)
(* FloodWaitError signals every run eventually ends, and in a run without   *)
(* a fatal signal (PeerFloodError, ChatAdminRequiredError) every candidate  *)
(* of every chunk eventually reaches a terminal outcome: Succeeded,         *)
(* AlreadyMember or Failed.                                                 *)
C18_Progress ==
    /\ <>Ended
    /\ \A p \in 0..(MaxN - 1) :
          <>(~NoFatal \/ p >= Len(PHONE_NUMBERS) \/ Terminal(p))
    /\ [](Ended /\ NoFatal =>
             \A p \in 0..(Len(PHONE_NUMBERS) - 1) : Terminal(p))

\* a run of two candidates ended without a fatal signal; the second one was
\* rate limited twice and then reached its terminal outcome
C18_Witness ==
    /\ pc = "done"
    /\ NoFatal
    /\ Len(PHONE_NUMBERS) = 2
    /\ Cardinality({j \in EvIdx : IsRateLimited(events[j])
                                     /\ events[j].pos = 1}) = 2
    /\ Terminal(0)
    /\ Terminal(1)

=============================================================================
